---- MODULE Spec2Model ----
(***************************************************************************)
(* A model of reyoung/fsm: the transition engine (fsm.go) and the two      *)
(* schedulers that wrap it, QueuedFSM (queued_fsm.go) and PreemptiveFSM    *)
(* (preemptive_fsm.go).                                                    *)
(***************************************************************************)
EXTENDS Naturals, Integers, Sequences, FiniteSets, TLC

\* ------------------------------------------------------------------ bounds
\* Most transitions AddTransition may record in the engine specification.
MaxTransitions == 2
\* Most calls of a scheduler's ProcessEvent, all callers together.
MaxSubmits == 3
\* The same, in the runs checked for progress.
LiveSubmits == 2

\* ------------------------------------------------------------------ values
Nil == "nil"
AlreadyExists == "already exists"
NoTransition == "no transition registered"
ActionError == "action failed"
Preempted == "the current event has been preempted"
ShouldNotReEnterPanic ==
    "the process event should not re-enter. " \o
    "i.e., ProcessEvent should not be invoked in action/guard"

stateNotFound(state) == "state " \o state \o " not found"

eventNotFound(event) == "event " \o event \o " not found"

StateIDs == {"off", "on"}
EventIDs == {"switch", "reset"}
\* The guard and action functions a caller may hand to AddTransition.
\* "nil" is Go's nil function value; "data" is a guard filtering on the data
\* the event carries and "low" one filtering on the counter the payload holds;
\* "count" increments that counter, "fail" returns ActionError and
\* "countFail" does both; "reenter" is a guard or an action that calls
\* fsm.ProcessEvent.
Guards == {"nil", "data"}
Actions == {"nil", "fail"}
\* The event the callers of a scheduler submit (StringEvent("switch"))
triggerSwitch == [id |-> "switch", data |-> FALSE]
EventValues == [id : EventIDs, data : BOOLEAN]

VARIABLES
    kind,        \* "engine", "queued" or "preemptive": what owns the FSM
    fsm,         \* the FSM struct
    call,        \* the most recent call into the FSM and what it did
    panicked,    \* a ProcessEvent call panicked with ShouldNotReEnterPanic
    cpc,         \* per call of a scheduler's ProcessEvent, its place
    cev,         \* per call, the event it submits
    done,        \* per call, the errors its entry's onComplete was called with
    ret,         \* per call, what it returned ("none" before)
    closePc,     \* the place of the caller of Close
    wpc,         \* the place of the loop that calls the FSM
    wEntry,      \* that loop's local entry (ev, evEntry)
    wResult,     \* what its FSM.ProcessEvent call returned
    dpc,         \* PreemptiveFSM: the place of the loop reading evChan
    dEntry,      \* its local evEntry
    dPrev,       \* its local prevEvEntry
    mutex,       \* nextEntrySetCond.L: "free" or the loop holding it
    exitFlag,    \* p.exitFlag
    nextEntry,   \* p.nextEntry
    wg,          \* the WaitGroup of the process event loop
    exitWG,      \* exitWG
    accepted,    \* history: what was received from evChan, in order
    recvWindow,  \* history: the entries received from evChan during one call
                 \* of FSM.ProcessEvent, the latest such call with any
    storeWindow, \* history: likewise, the entries put in p.nextEntry
    processed,   \* history: the FSM.ProcessEvent calls that returned
    overlap,     \* history: some call began before an earlier one returned
    track,       \* whether this run keeps recvWindow and storeWindow
    limit        \* how many calls of a scheduler's ProcessEvent this run makes

\* ------------------------------------------------------------------ fsm.go
NewFSM(initState, payload) ==
    [curState |-> initState,
     states |-> {initState},
     events |-> {},
     transitions |-> << >>,
     payload |-> payload,
     processEventInvokeCounter |-> 0]

HasEvent(f, evID) == evID \in f.events

HasState(f, state) == state \in f.states

CurrentState(f) == f.curState

defaultAction(payload, ev) == [payload |-> payload, err |-> Nil]

defaultGuard(payload, ev) == TRUE

\* t.guard(fsm.payload, ev)
GuardCall(guard, payload, ev) ==
    CASE guard = "defaultGuard" -> defaultGuard(payload, ev)
      [] guard = "data" -> ev.data
      [] guard = "low" -> payload < 2

\* t.action(fsm.payload, ev): the payload afterwards and the error returned
ActionCall(action, payload, ev) ==
    CASE action = "defaultAction" -> defaultAction(payload, ev)
      [] action = "count" -> [payload |-> payload + 1, err |-> Nil]
      [] action = "fail" -> [payload |-> payload, err |-> ActionError]
      [] action = "countFail" -> [payload |-> payload + 1, err |-> ActionError]

\* AddState without the test for a state already registered
AddStateOverwrites(f, state) ==
    [fsm |-> [f EXCEPT !.states = @ \cup {state}], err |-> Nil]

AddState(f, state) ==
    IF HasState(f, state)
    THEN [fsm |-> f, err |-> AlreadyExists]
    ELSE [fsm |-> [f EXCEPT !.states = @ \cup {state}], err |-> Nil]

AddEvent(f, eventID) ==
    IF HasEvent(f, eventID)
    THEN [fsm |-> f, err |-> AlreadyExists]
    ELSE [fsm |-> [f EXCEPT !.events = @ \cup {eventID}], err |-> Nil]

\* fsm.transitions[fromID][evId] after the two make() blocks of AddTransition
TransList(f, fromID, evId) ==
    IF fromID \in DOMAIN f.transitions /\ evId \in DOMAIN f.transitions[fromID]
    THEN f.transitions[fromID][evId]
    ELSE << >>

\* AddTransition without the check that the target state is registered
AddTransitionUncheckedTarget(f, from, evId, to, action, guard) ==
    LET a == IF action = "nil" THEN "defaultAction" ELSE action
        g == IF guard = "nil" THEN "defaultGuard" ELSE guard
        byEvent == IF from \in DOMAIN f.transitions THEN f.transitions[from] ELSE << >>
        list == Append(TransList(f, from, evId), [to |-> to, guard |-> g, action |-> a])
    IN  IF ~HasState(f, from) THEN [fsm |-> f, err |-> stateNotFound(from)]
        ELSE IF ~HasEvent(f, evId) THEN [fsm |-> f, err |-> eventNotFound(evId)]
        ELSE [fsm |-> [f EXCEPT !.transitions =
                          (from :> ((evId :> list) @@ byEvent)) @@ f.transitions],
              err |-> Nil]

\* AddTransition testing the from state a second time where it should test
\* the to state
AddTransitionChecksFromTwice(f, from, evId, to, action, guard) ==
    LET a == IF action = "nil" THEN "defaultAction" ELSE action
        g == IF guard = "nil" THEN "defaultGuard" ELSE guard
        byEvent == IF from \in DOMAIN f.transitions THEN f.transitions[from] ELSE << >>
        list == Append(TransList(f, from, evId), [to |-> to, guard |-> g, action |-> a])
    IN  IF ~HasState(f, from) THEN [fsm |-> f, err |-> stateNotFound(from)]
        ELSE IF ~HasEvent(f, evId) THEN [fsm |-> f, err |-> eventNotFound(evId)]
        ELSE IF ~HasState(f, from) THEN [fsm |-> f, err |-> stateNotFound(to)]
        ELSE [fsm |-> [f EXCEPT !.transitions =
                          (from :> ((evId :> list) @@ byEvent)) @@ f.transitions],
              err |-> Nil]

AddTransition(f, from, evId, to, action, guard) ==
    LET a == IF action = "nil" THEN "defaultAction" ELSE action
        g == IF guard = "nil" THEN "defaultGuard" ELSE guard
        byEvent == IF from \in DOMAIN f.transitions THEN f.transitions[from] ELSE << >>
        list == Append(TransList(f, from, evId), [to |-> to, guard |-> g, action |-> a])
    IN  IF ~HasState(f, from) THEN [fsm |-> f, err |-> stateNotFound(from)]
        ELSE IF ~HasEvent(f, evId) THEN [fsm |-> f, err |-> eventNotFound(evId)]
        ELSE IF ~HasState(f, to) THEN [fsm |-> f, err |-> stateNotFound(to)]
        ELSE [fsm |-> [f EXCEPT !.transitions =
                          (from :> ((evId :> list) @@ byEvent)) @@ f.transitions],
              err |-> Nil]

\* fsm.processEventInvokeCounter += 1
ProcessEventEnter(f) ==
    [f EXCEPT !.processEventInvokeCounter = @ + 1]

\* ProcessEvent without its deferred decrement
ProcessEventLeaveNoDecrement(f) == f

\* the deferred fsm.processEventInvokeCounter -= 1
ProcessEventLeave(f) ==
    [f EXCEPT !.processEventInvokeCounter = @ - 1]

RECURSIVE ProcessEvent(_, _)

\* The guards and actions a nested call of ProcessEvent ran
InnerCalls(n) == Len(n.guards) + Len(n.actions) + n.inner

\* t.guard(fsm.payload, ev) for any guard: "reenter" is a guard that calls
\* fsm.ProcessEvent(ev) itself and returns whether that returned nil
GuardOutcome(f, guard, ev) ==
    IF guard = "reenter"
    THEN LET n == ProcessEvent(f, ev)
         IN  [fsm |-> n.fsm, ok |-> n.err = Nil, panic |-> n.panic,
              inner |-> InnerCalls(n)]
    ELSE [fsm |-> f, ok |-> GuardCall(guard, f.payload, ev), panic |-> FALSE,
          inner |-> 0]

\* t.action(fsm.payload, ev) for any action: "reenter" is an action that
\* calls fsm.ProcessEvent(ev) itself and returns what that returned
ActionOutcome(f, action, ev) ==
    IF action = "reenter"
    THEN LET n == ProcessEvent(f, ev)
         IN  [fsm |-> n.fsm, err |-> n.err, panic |-> n.panic,
              inner |-> InnerCalls(n)]
    ELSE LET r == ActionCall(action, f.payload, ev)
         IN  [fsm |-> [f EXCEPT !.payload = r.payload], err |-> r.err,
              panic |-> FALSE, inner |-> 0]

\* The loop leaving at the first guard that returns false
RangeTransListBreaks(f, ev, transList, i, guards) ==
    IF i > Len(transList)
    THEN [fsm |-> f, err |-> NoTransition, guards |-> guards, actions |-> << >>,
          panic |-> FALSE, inner |-> 0]
    ELSE LET t == transList[i]
             g == GuardOutcome(f, t.guard, ev)
             a == ActionOutcome(g.fsm, t.action, ev)
         IN  IF g.panic
             THEN [fsm |-> g.fsm, err |-> ShouldNotReEnterPanic,
                   guards |-> Append(guards, i), actions |-> << >>,
                   panic |-> TRUE, inner |-> g.inner]
             ELSE IF ~g.ok
             THEN [fsm |-> g.fsm, err |-> NoTransition,
                   guards |-> Append(guards, i), actions |-> << >>,
                   panic |-> FALSE, inner |-> g.inner]
             ELSE IF a.panic
             THEN [fsm |-> a.fsm, err |-> ShouldNotReEnterPanic,
                   guards |-> Append(guards, i), actions |-> <<i>>,
                   panic |-> TRUE, inner |-> g.inner + a.inner]
             ELSE IF a.err # Nil
             THEN [fsm |-> a.fsm, err |-> a.err,
                   guards |-> Append(guards, i), actions |-> <<i>>,
                   panic |-> FALSE, inner |-> g.inner + a.inner]
             ELSE [fsm |-> [a.fsm EXCEPT !.curState = t.to], err |-> Nil,
                   guards |-> Append(guards, i), actions |-> <<i>>,
                   panic |-> FALSE, inner |-> g.inner + a.inner]

\* The loop setting the state before it looks at the action's error
RangeTransListCommitsFirst(f, ev, transList, i, guards) ==
    IF i > Len(transList)
    THEN [fsm |-> f, err |-> NoTransition, guards |-> guards, actions |-> << >>,
          panic |-> FALSE, inner |-> 0]
    ELSE LET t == transList[i]
             g == GuardOutcome(f, t.guard, ev)
             a == ActionOutcome(g.fsm, t.action, ev)
         IN  IF g.panic
             THEN [fsm |-> g.fsm, err |-> ShouldNotReEnterPanic,
                   guards |-> Append(guards, i), actions |-> << >>,
                   panic |-> TRUE, inner |-> g.inner]
             ELSE IF ~g.ok
             THEN [fsm |-> g.fsm, err |-> NoTransition,
                   guards |-> Append(guards, i), actions |-> << >>,
                   panic |-> FALSE, inner |-> g.inner]
             ELSE IF a.panic
             THEN [fsm |-> a.fsm, err |-> ShouldNotReEnterPanic,
                   guards |-> Append(guards, i), actions |-> <<i>>,
                   panic |-> TRUE, inner |-> g.inner + a.inner]
             ELSE [fsm |-> [a.fsm EXCEPT !.curState = t.to], err |-> a.err,
                   guards |-> Append(guards, i), actions |-> <<i>>,
                   panic |-> FALSE, inner |-> g.inner + a.inner]

\* The loop returning nil once it has run off the end of the list
RECURSIVE RangeTransListEndsNil(_, _, _, _, _)
RangeTransListEndsNil(f, ev, transList, i, guards) ==
    IF i > Len(transList)
    THEN [fsm |-> f, err |-> Nil, guards |-> guards, actions |-> << >>,
          panic |-> FALSE, inner |-> 0]
    ELSE LET t == transList[i]
             g == GuardOutcome(f, t.guard, ev)
             a == ActionOutcome(g.fsm, t.action, ev)
         IN  IF g.panic
             THEN [fsm |-> g.fsm, err |-> ShouldNotReEnterPanic,
                   guards |-> Append(guards, i), actions |-> << >>,
                   panic |-> TRUE, inner |-> g.inner]
             ELSE IF ~g.ok
             THEN [RangeTransListEndsNil(g.fsm, ev, transList, i + 1, Append(guards, i))
                      EXCEPT !.inner = @ + g.inner]
             ELSE IF a.panic
             THEN [fsm |-> a.fsm, err |-> ShouldNotReEnterPanic,
                   guards |-> Append(guards, i), actions |-> <<i>>,
                   panic |-> TRUE, inner |-> g.inner + a.inner]
             ELSE IF a.err # Nil
             THEN [fsm |-> a.fsm, err |-> a.err,
                   guards |-> Append(guards, i), actions |-> <<i>>,
                   panic |-> FALSE, inner |-> g.inner + a.inner]
             ELSE [fsm |-> [a.fsm EXCEPT !.curState = t.to], err |-> Nil,
                   guards |-> Append(guards, i), actions |-> <<i>>,
                   panic |-> FALSE, inner |-> g.inner + a.inner]

\* The loop over transList, from its i-th element on. guards and actions
\* list the indices of the transitions whose guard, action was called so far;
\* a panic in a guard or an action ends the loop and goes on to the caller.
RECURSIVE RangeTransList(_, _, _, _, _)
RangeTransList(f, ev, transList, i, guards) ==
    IF i > Len(transList)
    THEN [fsm |-> f, err |-> NoTransition, guards |-> guards, actions |-> << >>,
          panic |-> FALSE, inner |-> 0]
    ELSE LET t == transList[i]
             g == GuardOutcome(f, t.guard, ev)
             a == ActionOutcome(g.fsm, t.action, ev)
         IN  IF g.panic
             THEN [fsm |-> g.fsm, err |-> ShouldNotReEnterPanic,
                   guards |-> Append(guards, i), actions |-> << >>,
                   panic |-> TRUE, inner |-> g.inner]
             ELSE IF ~g.ok
             THEN [RangeTransList(g.fsm, ev, transList, i + 1, Append(guards, i))
                      EXCEPT !.inner = @ + g.inner]
             ELSE IF a.panic
             THEN [fsm |-> a.fsm, err |-> ShouldNotReEnterPanic,
                   guards |-> Append(guards, i), actions |-> <<i>>,
                   panic |-> TRUE, inner |-> g.inner + a.inner]
             ELSE IF a.err # Nil
             THEN [fsm |-> a.fsm, err |-> a.err,
                   guards |-> Append(guards, i), actions |-> <<i>>,
                   panic |-> FALSE, inner |-> g.inner + a.inner]
             ELSE [fsm |-> [a.fsm EXCEPT !.curState = t.to], err |-> Nil,
                   guards |-> Append(guards, i), actions |-> <<i>>,
                   panic |-> FALSE, inner |-> g.inner + a.inner]

\* ProcessEvent after the re-entrance check: the lookup and the loop
ProcessEventBody(f, ev) ==
    IF f.curState \notin DOMAIN f.transitions
    THEN [fsm |-> f, err |-> NoTransition, guards |-> << >>, actions |-> << >>,
          panic |-> FALSE, inner |-> 0]
    ELSE IF ev.id \notin DOMAIN f.transitions[f.curState]
    THEN [fsm |-> f, err |-> NoTransition, guards |-> << >>, actions |-> << >>,
          panic |-> FALSE, inner |-> 0]
    ELSE RangeTransList(f, ev, f.transitions[f.curState][ev.id], 1, << >>)

\* ProcessEvent whose deferred decrement does not run when it panics
ProcessEventPanicLeaks(f, ev) ==
    LET entered == ProcessEventEnter(f)
        r == ProcessEventBody(entered, ev)
    IN  IF entered.processEventInvokeCounter # 1
        THEN [fsm |-> entered, err |-> ShouldNotReEnterPanic,
              guards |-> << >>, actions |-> << >>, panic |-> TRUE, inner |-> 0]
        ELSE [fsm |-> ProcessEventLeave(r.fsm), err |-> r.err,
              guards |-> r.guards, actions |-> r.actions, panic |-> r.panic,
              inner |-> r.inner]

\* A whole ProcessEvent call: the counter, the panic if it is not 1, the
\* lookup and the loop, and the deferred decrement, which runs when the call
\* returns and when it panics
ProcessEvent(f, ev) ==
    LET entered == ProcessEventEnter(f)
        r == ProcessEventBody(entered, ev)
    IN  IF entered.processEventInvokeCounter # 1
        THEN [fsm |-> ProcessEventLeave(entered), err |-> ShouldNotReEnterPanic,
              guards |-> << >>, actions |-> << >>, panic |-> TRUE, inner |-> 0]
        ELSE [fsm |-> ProcessEventLeave(r.fsm), err |-> r.err,
              guards |-> r.guards, actions |-> r.actions, panic |-> r.panic,
              inner |-> r.inner]

\* ------------------------------------------------------- the schedulers' state
\* The calls of a scheduler's ProcessEvent, numbered as they begin, by any
\* number of goroutines; each has its own entry, named by the call's number.
Calls == 1..MaxSubmits
NilEntry == 0
Entries == Calls
EventOf(e) == cev[e]
\* The entries the process event loop has taken for FSM.ProcessEvent
Claimed == {processed[i].entry : i \in 1..Len(processed)} \cup ({wEntry} \ {NilEntry})
NoWindow == [during |-> NilEntry, entries |-> << >>]
\* A window once e arrives: unchanged if no call is running, extended if the
\* call running is the window's, and a new one otherwise
Arrive(window, e) ==
    IF ~track \/ wEntry = NilEntry \/ e = NilEntry THEN window
    ELSE IF window.during = wEntry
    THEN [window EXCEPT !.entries = Append(@, e)]
    ELSE [during |-> wEntry, entries |-> <<e>>]

schedVars == <<cpc, cev, done, ret, closePc, wpc, wEntry, wResult, dpc, dEntry,
               dPrev, mutex, exitFlag, nextEntry, wg, exitWG, accepted, recvWindow,
               storeWindow, processed, overlap, track, limit>>

\* The fields NewQueuedFSM and NewPreemptiveFSM set, and callers yet to call
SchedInit ==
    /\ cpc = [c \in Calls |-> "none"]
    /\ cev = [c \in Calls |-> triggerSwitch]
    /\ done = [e \in Entries |-> << >>]
    /\ ret = [e \in Entries |-> "none"]
    /\ closePc = "idle"
    /\ wEntry = NilEntry
    /\ wResult = Nil
    /\ dEntry = NilEntry
    /\ dPrev = NilEntry
    /\ mutex = "free"
    /\ exitFlag = FALSE
    /\ nextEntry = NilEntry
    /\ wg = 1
    /\ exitWG = 1
    /\ accepted = << >>
    /\ recvWindow = NoWindow
    /\ storeWindow = NoWindow
    /\ processed = << >>
    /\ overlap = FALSE

\* --------------------------------------------------- the engine, called directly
NoCall == [op |-> "none", arg |-> << >>, ev |-> [id |-> "switch", data |-> FALSE],
           err |-> Nil, guards |-> << >>, actions |-> << >>,
           panic |-> FALSE, inner |-> 0, before |-> NewFSM("off", 0)]

\* The transitions recorded in the whole table
RECURSIVE SumLen(_, _)
SumLen(f, pairs) ==
    IF pairs = {} THEN 0
    ELSE LET p == CHOOSE q \in pairs : TRUE
         IN  Len(TransList(f, p[1], p[2])) + SumLen(f, pairs \ {p})

NumTransitions(f) == SumLen(f, StateIDs \X EventIDs)

EngineInit ==
    /\ kind = "engine"
    /\ fsm = NewFSM("off", 0)
    /\ call = NoCall
    /\ panicked = FALSE
    /\ SchedInit
    /\ wpc = "none"
    /\ dpc = "none"
    /\ track = FALSE
    /\ limit = 0

EAddState(state) ==
    LET r == AddState(fsm, state)
    IN  /\ kind = "engine"
        /\ fsm' = r.fsm
        /\ call' = [NoCall EXCEPT !.op = "AddState", !.arg = <<state>>, !.err = r.err,
                                 !.before = fsm]
        /\ UNCHANGED <<kind, panicked>>
        /\ UNCHANGED schedVars

EAddEvent(eventID) ==
    LET r == AddEvent(fsm, eventID)
    IN  /\ kind = "engine"
        /\ fsm' = r.fsm
        /\ call' = [NoCall EXCEPT !.op = "AddEvent", !.arg = <<eventID>>, !.err = r.err,
                                 !.before = fsm]
        /\ UNCHANGED <<kind, panicked>>
        /\ UNCHANGED schedVars

EAddTransition(from, evId, to, action, guard) ==
    LET r == AddTransition(fsm, from, evId, to, action, guard)
    IN  /\ kind = "engine"
        /\ NumTransitions(fsm) < MaxTransitions
        /\ fsm' = r.fsm
        /\ call' = [NoCall EXCEPT !.op = "AddTransition",
                                 !.arg = <<from, evId, to, action, guard>>,
                                 !.err = r.err, !.before = fsm]
        /\ UNCHANGED <<kind, panicked>>
        /\ UNCHANGED schedVars

EProcessEvent(ev) ==
    LET r == ProcessEvent(fsm, ev)
    IN  /\ kind = "engine"
        /\ fsm' = r.fsm
        /\ call' = [op |-> "ProcessEvent", arg |-> << >>, ev |-> ev, err |-> r.err,
                    guards |-> r.guards, actions |-> r.actions,
                    panic |-> r.panic, inner |-> r.inner, before |-> fsm]
        /\ panicked' = (panicked \/ r.panic)
        /\ UNCHANGED kind
        /\ UNCHANGED schedVars

EngineNext ==
    \/ \E s \in StateIDs : EAddState(s)
    \/ \E e \in EventIDs : EAddEvent(e)
    \/ \E from \in StateIDs, e \in EventIDs, to \in StateIDs,
          a \in Actions, g \in Guards : EAddTransition(from, e, to, a, g)
    \/ \E ev \in EventValues : EProcessEvent(ev)

vars == <<kind, fsm, call, panicked, schedVars>>

SpecEngine == EngineInit /\ [][EngineNext]_vars

\* The engine called directly by a caller whose guards and actions may call
\* fsm.ProcessEvent, and who recovers from the panic and goes on
ReenterGuards == Guards \cup {"reenter"}
ReenterActions == Actions \cup {"reenter"}

ReenterNext ==
    \/ \E s \in StateIDs : EAddState(s)
    \/ EAddEvent("switch")
    \/ \E from \in StateIDs, to \in StateIDs,
          a \in ReenterActions, g \in ReenterGuards :
              EAddTransition(from, "switch", to, a, g)
    \/ \E d \in BOOLEAN : EProcessEvent([id |-> "switch", data |-> d])

SpecReenter == EngineInit /\ [][ReenterNext]_vars

\* ------------------------------------------------- the schedulers' callers
\* The switch of the tests: off and on, and counting actions
SwitchFSM ==
    LET f0 == NewFSM("off", 0)
        f1 == AddState(f0, "on").fsm
        f2 == AddEvent(f1, "switch").fsm
        f3 == AddTransition(f2, "off", "switch", "on", "count", "nil").fsm
    IN  AddTransition(f3, "on", "switch", "off", "count", "nil").fsm

\* A switch that turns on, then fails once in an action that has counted,
\* and from then on has no transition whose guard holds
StuckFSM ==
    LET f0 == NewFSM("off", 0)
        f1 == AddState(f0, "on").fsm
        f2 == AddEvent(f1, "switch").fsm
        f3 == AddTransition(f2, "off", "switch", "on", "count", "nil").fsm
    IN  AddTransition(f3, "on", "switch", "off", "countFail", "low").fsm

\* The values the goroutines blocked in evChan <- ... are sending
Sending ==
    {c \in Calls : cpc[c] = "send"} \cup (IF closePc = "send" THEN {NilEntry} ELSE {})

\* The sender of e goes on once its value is received
Received(e) ==
    IF e = NilEntry
    THEN closePc' = "wait" /\ UNCHANGED cpc
    ELSE cpc' = [cpc EXCEPT ![e] = "wait"] /\ UNCHANGED closePc

\* ProcessEvent of either scheduler up to its send on evChan
Submit(c) ==
    /\ kind \in {"queued", "preemptive"}
    /\ cpc[c] = "none"
    /\ c <= limit
    /\ IF c = 1 THEN TRUE ELSE cpc[c - 1] # "none"
    /\ cev' = [cev EXCEPT ![c] = triggerSwitch]
    /\ cpc' = [cpc EXCEPT ![c] = "send"]
    /\ overlap' = (overlap \/ \E b \in 1..(c - 1) : cpc[b] # "returned")
    /\ UNCHANGED <<kind, fsm, call, panicked, done, ret, closePc, wpc, wEntry, wResult,
                   dpc, dEntry, dPrev, mutex, exitFlag, nextEntry, wg, exitWG,
                   accepted, recvWindow, storeWindow, processed,
                   track, limit>>

\* notification.Wait() (wg.Wait()) and the return of the result
Return(c) ==
    /\ cpc[c] = "wait"
    /\ done[c] # << >>
    /\ ret' = [ret EXCEPT ![c] = done[c][Len(done[c])]]
    /\ cpc' = [cpc EXCEPT ![c] = "returned"]
    /\ UNCHANGED <<kind, fsm, call, panicked, cev, done, closePc, wpc, wEntry,
                   wResult, dpc, dEntry, dPrev, mutex, exitFlag, nextEntry, wg, exitWG,
                   accepted, recvWindow, storeWindow, processed,
                   overlap, track, limit>>

\* Close up to its send of nil on evChan
CloseCall ==
    /\ kind \in {"queued", "preemptive"}
    /\ closePc = "idle"
    /\ closePc' = "send"
    /\ UNCHANGED <<kind, fsm, call, panicked, cpc, cev, done, ret, wpc, wEntry,
                   wResult, dpc, dEntry, dPrev, mutex, exitFlag, nextEntry, wg, exitWG,
                   accepted, recvWindow, storeWindow, processed,
                   overlap, track, limit>>

\* exitWG.Wait() and return nil
CloseReturn ==
    /\ closePc = "wait"
    /\ exitWG = 0
    /\ closePc' = "returned"
    /\ UNCHANGED <<kind, fsm, call, panicked, cpc, cev, done, ret, wpc, wEntry,
                   wResult, dpc, dEntry, dPrev, mutex, exitFlag, nextEntry, wg, exitWG,
                   accepted, recvWindow, storeWindow, processed,
                   overlap, track, limit>>

\* ------------------------------------- the call of FSM.ProcessEvent in a loop
\* FSM.ProcessEvent(wEntry's event) up to the re-entrance check
WEnter ==
    /\ wpc = "enter"
    /\ fsm' = ProcessEventEnter(fsm)
    /\ panicked' = (panicked \/ fsm'.processEventInvokeCounter # 1)
    /\ wpc' = IF fsm'.processEventInvokeCounter # 1 THEN "panic" ELSE "leave"
    /\ UNCHANGED <<kind, call, cpc, cev, done, ret, closePc, wEntry, wResult,
                   dpc, dEntry, dPrev, mutex, exitFlag, nextEntry, wg, exitWG,
                   accepted, recvWindow, storeWindow, processed,
                   overlap, track, limit>>

\* the rest of that call: the lookup, the guards, the action, the deferred
\* decrement, and the return
WLeave ==
    LET r == ProcessEventBody(fsm, EventOf(wEntry))
    IN  /\ wpc = "leave"
        /\ fsm' = ProcessEventLeave(r.fsm)
        /\ call' = [op |-> "ProcessEvent", arg |-> << >>, ev |-> EventOf(wEntry),
                    err |-> r.err,
                    guards |-> r.guards, actions |-> r.actions,
                    panic |-> r.panic, inner |-> r.inner, before |-> fsm]
        /\ wResult' = r.err
        /\ processed' = Append(processed,
                               [entry |-> wEntry, ev |-> EventOf(wEntry), err |-> r.err])
        /\ wpc' = "complete"
        /\ UNCHANGED <<kind, panicked, cpc, cev, done, ret, closePc, wEntry,
                       dpc, dEntry, dPrev, mutex, exitFlag, nextEntry, wg, exitWG,
                       accepted, recvWindow, storeWindow, overlap, track, limit>>

\* ------------------------------------------------------------ queued_fsm.go
\* The loop receiving the next entry before it has called onComplete
QRecvEarly(e) ==
    /\ kind = "queued"
    /\ wpc \in {"recv", "complete"}
    /\ e \in Sending
    /\ Received(e)
    /\ wEntry' = e
    /\ accepted' = Append(accepted, e)
    /\ wpc' = IF e = NilEntry THEN "break" ELSE "enter"
    /\ UNCHANGED <<kind, fsm, call, panicked, cev, done, ret, wResult,
                   dpc, dEntry, dPrev, mutex, exitFlag, nextEntry, wg, exitWG,
                   recvWindow, storeWindow, processed, overlap, track, limit>>

\* ev := <-q.evChan, and the test for nil
QRecv(e) ==
    /\ kind = "queued"
    /\ wpc = "recv"
    /\ e \in Sending
    /\ Received(e)
    /\ wEntry' = e
    /\ accepted' = Append(accepted, e)
    /\ wpc' = IF e = NilEntry THEN "break" ELSE "enter"
    /\ UNCHANGED <<kind, fsm, call, panicked, cev, done, ret, wResult,
                   dpc, dEntry, dPrev, mutex, exitFlag, nextEntry, wg, exitWG,
                   recvWindow, storeWindow, processed, overlap, track, limit>>

\* onComplete called with nil whatever FSM.ProcessEvent returned
QCompleteDropsError ==
    /\ kind = "queued"
    /\ wpc = "complete"
    /\ done' = [done EXCEPT ![wEntry] = Append(@, Nil)]
    /\ wEntry' = NilEntry
    /\ wpc' = "recv"
    /\ UNCHANGED <<kind, fsm, call, panicked, cpc, cev, ret, closePc, wResult,
                   dpc, dEntry, dPrev, mutex, exitFlag, nextEntry, wg, exitWG,
                   accepted, recvWindow, storeWindow, processed, overlap, track, limit>>

\* ev.onComplete(...): errResult = err, and the caller is notified
QComplete ==
    /\ kind = "queued"
    /\ wpc = "complete"
    /\ done' = [done EXCEPT ![wEntry] = Append(@, wResult)]
    /\ wEntry' = NilEntry
    /\ wpc' = "recv"
    /\ UNCHANGED <<kind, fsm, call, panicked, cpc, cev, ret, closePc, wResult,
                   dpc, dEntry, dPrev, mutex, exitFlag, nextEntry, wg, exitWG,
                   accepted, recvWindow, storeWindow, processed,
                   overlap, track, limit>>

\* q.exitWG.Done() after the break
QExit ==
    /\ kind = "queued"
    /\ wpc = "break"
    /\ exitWG' = exitWG - 1
    /\ wpc' = "exited"
    /\ UNCHANGED <<kind, fsm, call, panicked, cpc, cev, done, ret, closePc,
                   wEntry, wResult, dpc, dEntry, dPrev, mutex, exitFlag, nextEntry, wg,
                   accepted, recvWindow, storeWindow, processed,
                   overlap, track, limit>>

QueuedInit ==
    /\ kind = "queued"
    /\ fsm \in {SwitchFSM, StuckFSM}
    /\ call = NoCall
    /\ panicked = FALSE
    /\ SchedInit
    /\ wpc = "recv"
    /\ dpc = "none"

\* -------------------------------------- preemptive_fsm.go: process event loop
\* l.Lock(), at the top of the loop or inside Wait() once woken
PLock ==
    /\ kind = "preemptive"
    /\ wpc = "lock"
    /\ mutex = "free"
    /\ mutex' = "worker"
    /\ wpc' = "check"
    /\ UNCHANGED <<kind, fsm, call, panicked, cpc, cev, done, ret, closePc,
                   wEntry, wResult, dpc, dEntry, dPrev, exitFlag, nextEntry, wg, exitWG,
                   accepted, recvWindow, storeWindow, processed,
                   overlap, track, limit>>

\* for !p.exitFlag && p.nextEntry == nil: Wait() joins the waiters and unlocks
PWait ==
    /\ kind = "preemptive"
    /\ wpc = "check"
    /\ ~exitFlag /\ nextEntry = NilEntry
    /\ mutex' = "free"
    /\ wpc' = "waiting"
    /\ UNCHANGED <<kind, fsm, call, panicked, cpc, cev, done, ret, closePc,
                   wEntry, wResult, dpc, dEntry, dPrev, exitFlag, nextEntry, wg, exitWG,
                   accepted, recvWindow, storeWindow, processed,
                   overlap, track, limit>>

\* The return taken whether or not p.exitFlag is set
PReturnIgnoresFlag ==
    /\ kind = "preemptive"
    /\ wpc = "check"
    /\ wg' = wg - 1
    /\ wpc' = "exited"
    /\ UNCHANGED <<kind, fsm, call, panicked, cpc, cev, done, ret, closePc,
                   wEntry, wResult, dpc, dEntry, dPrev, mutex, exitFlag, nextEntry,
                   exitWG, accepted, recvWindow, storeWindow, processed,
                   overlap, track, limit>>

\* if p.exitFlag { return }: the lock is not released; the deferred wg.Done()
PReturn ==
    /\ kind = "preemptive"
    /\ wpc = "check"
    /\ exitFlag
    /\ wg' = wg - 1
    /\ wpc' = "exited"
    /\ UNCHANGED <<kind, fsm, call, panicked, cpc, cev, done, ret, closePc,
                   wEntry, wResult, dpc, dEntry, dPrev, mutex, exitFlag, nextEntry,
                   exitWG, accepted, recvWindow, storeWindow, processed,
                   overlap, track, limit>>

\* The claim that leaves the entry in p.nextEntry
PClaimKeepsSlot ==
    /\ kind = "preemptive"
    /\ wpc = "check"
    /\ ~exitFlag /\ nextEntry # NilEntry
    /\ wEntry' = nextEntry
    /\ wpc' = "unlock"
    /\ UNCHANGED <<kind, fsm, call, panicked, cpc, cev, done, ret, closePc,
                   wResult, dpc, dEntry, dPrev, mutex, exitFlag, nextEntry, wg, exitWG,
                   accepted, recvWindow, storeWindow, processed, overlap, track, limit>>

\* evEntry := p.nextEntry; p.nextEntry = nil
PClaim ==
    /\ kind = "preemptive"
    /\ wpc = "check"
    /\ ~exitFlag /\ nextEntry # NilEntry
    /\ wEntry' = nextEntry
    /\ nextEntry' = NilEntry
    /\ wpc' = "unlock"
    /\ UNCHANGED <<kind, fsm, call, panicked, cpc, cev, done, ret, closePc,
                   wResult, dpc, dEntry, dPrev, mutex, exitFlag, wg, exitWG,
                   accepted, recvWindow, storeWindow, processed,
                   overlap, track, limit>>

\* l.Unlock() before the call of FSM.ProcessEvent
PUnlock ==
    /\ kind = "preemptive"
    /\ wpc = "unlock"
    /\ mutex' = "free"
    /\ wpc' = "enter"
    /\ UNCHANGED <<kind, fsm, call, panicked, cpc, cev, done, ret, closePc,
                   wEntry, wResult, dpc, dEntry, dPrev, exitFlag, nextEntry, wg, exitWG,
                   accepted, recvWindow, storeWindow, processed,
                   overlap, track, limit>>

\* evEntry.onComplete(...): result = err, notification.Done()
PComplete ==
    /\ kind = "preemptive"
    /\ wpc = "complete"
    /\ done' = [done EXCEPT ![wEntry] = Append(@, wResult)]
    /\ wEntry' = NilEntry
    /\ wpc' = "lock"
    /\ UNCHANGED <<kind, fsm, call, panicked, cpc, cev, ret, closePc, wResult,
                   dpc, dEntry, dPrev, mutex, exitFlag, nextEntry, wg, exitWG,
                   accepted, recvWindow, storeWindow, processed,
                   overlap, track, limit>>

\* ------------------------------- preemptive_fsm.go: the loop reading evChan
\* evEntry := <-p.evChan
DRecv(e) ==
    /\ kind = "preemptive"
    /\ dpc = "recv"
    /\ e \in Sending
    /\ Received(e)
    /\ dEntry' = e
    /\ accepted' = Append(accepted, e)
    /\ recvWindow' = Arrive(recvWindow, e)
    /\ dpc' = "lock"
    /\ UNCHANGED <<kind, fsm, call, panicked, cev, done, ret, wpc, wEntry,
                   wResult, dPrev, mutex, exitFlag, nextEntry, wg, exitWG,
                   storeWindow, processed, overlap, track, limit>>

\* l.Lock()
DLock ==
    /\ kind = "preemptive"
    /\ dpc = "lock"
    /\ mutex = "free"
    /\ mutex' = "dispatcher"
    /\ dpc' = "swap"
    /\ UNCHANGED <<kind, fsm, call, panicked, cpc, cev, done, ret, closePc, wpc,
                   wEntry, wResult, dEntry, dPrev, exitFlag, nextEntry, wg, exitWG,
                   accepted, recvWindow, storeWindow, processed,
                   overlap, track, limit>>

\* The swap that keeps an entry waiting in p.nextEntry and displaces the
\* new one instead
DSwapKeepsOldest ==
    /\ kind = "preemptive"
    /\ dpc = "swap"
    /\ dPrev' = IF nextEntry # NilEntry /\ dEntry # NilEntry THEN dEntry ELSE nextEntry
    /\ nextEntry' = IF nextEntry # NilEntry /\ dEntry # NilEntry THEN nextEntry ELSE dEntry
    /\ exitFlag' = (exitFlag \/ dEntry = NilEntry)
    /\ storeWindow' = Arrive(storeWindow, dEntry)
    /\ dpc' = "unlock"
    /\ UNCHANGED <<kind, fsm, call, panicked, cpc, cev, done, ret, closePc, wpc,
                   wEntry, wResult, dEntry, mutex, wg, exitWG,
                   accepted, recvWindow, processed, overlap, track, limit>>

\* The swap that takes the entry waiting in p.nextEntry and does not store
\* the new one
DSwapForgetsStore ==
    /\ kind = "preemptive"
    /\ dpc = "swap"
    /\ dPrev' = nextEntry
    /\ nextEntry' = nextEntry
    /\ exitFlag' = (exitFlag \/ dEntry = NilEntry)
    /\ storeWindow' = Arrive(storeWindow, dEntry)
    /\ dpc' = "unlock"
    /\ UNCHANGED <<kind, fsm, call, panicked, cpc, cev, done, ret, closePc, wpc,
                   wEntry, wResult, dEntry, mutex, wg, exitWG,
                   accepted, recvWindow, processed, overlap, track, limit>>

\* prevEvEntry := p.nextEntry; p.nextEntry = evEntry; exitFlag on nil
DSwap ==
    /\ kind = "preemptive"
    /\ dpc = "swap"
    /\ dPrev' = nextEntry
    /\ nextEntry' = dEntry
    /\ exitFlag' = (exitFlag \/ dEntry = NilEntry)
    /\ storeWindow' = Arrive(storeWindow, dEntry)
    /\ dpc' = "unlock"
    /\ UNCHANGED <<kind, fsm, call, panicked, cpc, cev, done, ret, closePc, wpc,
                   wEntry, wResult, dEntry, mutex, wg, exitWG,
                   accepted, recvWindow, processed, overlap, track, limit>>

\* l.Unlock()
DUnlock ==
    /\ kind = "preemptive"
    /\ dpc = "unlock"
    /\ mutex' = "free"
    /\ dpc' = "broadcast"
    /\ UNCHANGED <<kind, fsm, call, panicked, cpc, cev, done, ret, closePc, wpc,
                   wEntry, wResult, dEntry, dPrev, exitFlag, nextEntry, wg, exitWG,
                   accepted, recvWindow, storeWindow, processed,
                   overlap, track, limit>>

\* The loop going on without the Broadcast
DBroadcastMissing ==
    /\ kind = "preemptive"
    /\ dpc = "broadcast"
    /\ dpc' = "preempt"
    /\ UNCHANGED <<kind, fsm, call, panicked, cpc, cev, done, ret, closePc, wpc,
                   wEntry, wResult, dEntry, dPrev, mutex, exitFlag, nextEntry, wg,
                   exitWG, accepted, recvWindow, storeWindow, processed,
                   overlap, track, limit>>

\* p.nextEntrySetCond.Broadcast(): a waiter leaves Wait() by locking again
DBroadcast ==
    /\ kind = "preemptive"
    /\ dpc = "broadcast"
    /\ wpc' = IF wpc = "waiting" THEN "lock" ELSE wpc
    /\ dpc' = "preempt"
    /\ UNCHANGED <<kind, fsm, call, panicked, cpc, cev, done, ret, closePc,
                   wEntry, wResult, dEntry, dPrev, mutex, exitFlag, nextEntry, wg,
                   exitWG, accepted, recvWindow, storeWindow, processed,
                   overlap, track, limit>>

\* The loop's end calling the new entry's onComplete, not the displaced one's
DPreemptNewEntry ==
    /\ kind = "preemptive"
    /\ dpc = "preempt"
    /\ done' = IF dPrev # NilEntry /\ dEntry # NilEntry
               THEN [done EXCEPT ![dEntry] = Append(@, Preempted)]
               ELSE done
    /\ dpc' = IF dEntry = NilEntry THEN "wgwait" ELSE "recv"
    /\ dEntry' = NilEntry
    /\ dPrev' = NilEntry
    /\ UNCHANGED <<kind, fsm, call, panicked, cpc, cev, ret, closePc, wpc,
                   wEntry, wResult, mutex, exitFlag, nextEntry, wg, exitWG,
                   accepted, recvWindow, storeWindow, processed, overlap, track, limit>>

\* The loop's end breaking on nil before it looks at the displaced entry
DPreemptBreakFirst ==
    /\ kind = "preemptive"
    /\ dpc = "preempt"
    /\ done' = IF dPrev # NilEntry /\ dEntry # NilEntry
               THEN [done EXCEPT ![dPrev] = Append(@, Preempted)]
               ELSE done
    /\ dpc' = IF dEntry = NilEntry THEN "wgwait" ELSE "recv"
    /\ dEntry' = NilEntry
    /\ dPrev' = NilEntry
    /\ UNCHANGED <<kind, fsm, call, panicked, cpc, cev, ret, closePc, wpc,
                   wEntry, wResult, mutex, exitFlag, nextEntry, wg, exitWG,
                   accepted, recvWindow, storeWindow, processed, overlap, track, limit>>

\* The loop's end calling, when nothing was displaced, the onComplete of the
\* entry the process event loop is processing
DPreemptCurrent ==
    /\ kind = "preemptive"
    /\ dpc = "preempt"
    /\ done' = IF dPrev # NilEntry
               THEN [done EXCEPT ![dPrev] = Append(@, Preempted)]
               ELSE IF wEntry # NilEntry /\ dEntry # NilEntry
               THEN [done EXCEPT ![wEntry] = Append(@, Preempted)]
               ELSE done
    /\ dpc' = IF dEntry = NilEntry THEN "wgwait" ELSE "recv"
    /\ dEntry' = NilEntry
    /\ dPrev' = NilEntry
    /\ UNCHANGED <<kind, fsm, call, panicked, cpc, cev, ret, closePc, wpc,
                   wEntry, wResult, mutex, exitFlag, nextEntry, wg, exitWG,
                   accepted, recvWindow, storeWindow, processed, overlap, track, limit>>

\* prevEvEntry.onComplete(preempted) if there is one; break on nil
DPreempt ==
    /\ kind = "preemptive"
    /\ dpc = "preempt"
    /\ done' = IF dPrev # NilEntry
               THEN [done EXCEPT ![dPrev] = Append(@, Preempted)]
               ELSE done
    /\ dpc' = IF dEntry = NilEntry THEN "wgwait" ELSE "recv"
    /\ dEntry' = NilEntry
    /\ dPrev' = NilEntry
    /\ UNCHANGED <<kind, fsm, call, panicked, cpc, cev, ret, closePc, wpc,
                   wEntry, wResult, mutex, exitFlag, nextEntry, wg, exitWG,
                   accepted, recvWindow, storeWindow, processed,
                   overlap, track, limit>>

\* mainLoop ending without wg.Wait()
DExitNoWait ==
    /\ kind = "preemptive"
    /\ dpc = "wgwait"
    /\ exitWG' = exitWG - 1
    /\ dpc' = "exited"
    /\ UNCHANGED <<kind, fsm, call, panicked, cpc, cev, done, ret, closePc, wpc,
                   wEntry, wResult, dEntry, dPrev, mutex, exitFlag, nextEntry, wg,
                   accepted, recvWindow, storeWindow, processed, overlap, track, limit>>

\* wg.Wait() returns once the process event loop has; the deferred
\* p.exitWG.Done()
DExit ==
    /\ kind = "preemptive"
    /\ dpc = "wgwait"
    /\ wg = 0
    /\ exitWG' = exitWG - 1
    /\ dpc' = "exited"
    /\ UNCHANGED <<kind, fsm, call, panicked, cpc, cev, done, ret, closePc, wpc,
                   wEntry, wResult, dEntry, dPrev, mutex, exitFlag, nextEntry, wg,
                   accepted, recvWindow, storeWindow, processed,
                   overlap, track, limit>>

PreemptiveInit ==
    /\ kind = "preemptive"
    /\ fsm \in {SwitchFSM, StuckFSM}
    /\ call = NoCall
    /\ panicked = FALSE
    /\ SchedInit
    /\ wpc = "lock"
    /\ dpc = "recv"

\* ------------------------------------------------------ the schedulers' runs
CallerNext ==
    \/ \E c \in Calls : Submit(c)
    \/ \E c \in Calls : Return(c)
    \/ CloseCall
    \/ CloseReturn
    \/ WEnter
    \/ WLeave

QueuedNext ==
    \/ \E e \in Sending : QRecv(e)
    \/ QComplete
    \/ QExit

ProcessLoopNext ==
    \/ PLock
    \/ PWait
    \/ PReturn
    \/ PClaim
    \/ PUnlock
    \/ PComplete

DispatchLoopNext ==
    \/ \E e \in Sending : DRecv(e)
    \/ DLock
    \/ DSwap
    \/ DUnlock
    \/ DBroadcast
    \/ DPreempt
    \/ DExit

Next == CallerNext \/ QueuedNext \/ ProcessLoopNext \/ DispatchLoopNext

Init ==
    /\ QueuedInit \/ PreemptiveInit
    /\ track = FALSE
    /\ limit = MaxSubmits

Spec == Init /\ [][Next]_vars

\* The preemptive scheduler alone, around the switch of its test, with the
\* windows kept
WindowsInit ==
    /\ PreemptiveInit
    /\ fsm = SwitchFSM
    /\ track = TRUE
    /\ limit = MaxSubmits

WindowsNext == CallerNext \/ ProcessLoopNext \/ DispatchLoopNext

SpecWindows == WindowsInit /\ [][WindowsNext]_vars

\* Either scheduler in runs where every goroutine that can take a step
\* eventually does, and every action returns
LiveInit ==
    /\ QueuedInit \/ PreemptiveInit
    /\ track = FALSE
    /\ limit = LiveSubmits

SpecLive ==
    /\ LiveInit
    /\ [][Next]_vars
    /\ WF_vars(QueuedNext \/ ProcessLoopNext \/ WEnter \/ WLeave)
    /\ WF_vars(DispatchLoopNext)
    /\ WF_vars(CloseReturn)

\* The same, and every caller whose entry's onComplete was called returns
SpecFair ==
    /\ SpecLive
    /\ \A c \in Calls : WF_vars(Return(c))

\* ------------------------------------------------------------------ properties
\* The error FSM.ProcessEvent returned for entry e, "none" if it has not returned
EngineResult(e) ==
    IF \E i \in 1..Len(processed) : processed[i].entry = e
    THEN processed[CHOOSE i \in 1..Len(processed) : processed[i].entry = e].err
    ELSE "none"

Fulfilled(e) == done[e] # << >>

\* The entries received from evChan so far
Accepted == {accepted[i] : i \in 1..Len(accepted)} \ {NilEntry}

\* The calls of a scheduler's ProcessEvent that have sent or are sending, and
\* whose entry's onComplete has not been called
Pending == {c \in Calls : cpc[c] \in {"send", "wait"} /\ ~Fulfilled(c)}

\* C1: under either scheduler at most one FSM.ProcessEvent call is running,
\* however many callers are inside the scheduler's ProcessEvent: the counter
\* never exceeds 1 and the re-entrance panic never happens.
C1_SingleEngineCall ==
    /\ fsm.processEventInvokeCounter <= 1
    /\ ~panicked
    /\ wpc # "panic"

\* C1 witness: a call of FSM.ProcessEvent is running while three callers are
\* inside the scheduler's ProcessEvent.
C1_Witness ==
    /\ fsm.processEventInvokeCounter = 1
    /\ wpc = "leave"
    /\ Cardinality(Pending) >= 3

\* C2 as claimed: of the submissions the dispatching loop receives from evChan
\* while one call of FSM.ProcessEvent runs, only the latest can be processed:
\* every earlier one is never taken for FSM.ProcessEvent and is completed with
\* the preempted error, at the latest when the loop is through with a later one.
C2_ReceivedWhileBusy ==
    \A i \in 1..(Len(recvWindow.entries) - 1) :
        LET e == recvWindow.entries[i]
            later == {recvWindow.entries[j] : j \in (i + 1)..Len(recvWindow.entries)}
        IN  /\ e \notin Claimed
            /\ \/ done[e] = <<Preempted>>
               \/ /\ done[e] = << >>
                  /\ dEntry \in later
                  /\ dpc \in {"lock", "swap", "unlock", "broadcast", "preempt"}

\* The entries of the store window but its latest: each was never taken for
\* FSM.ProcessEvent, and its onComplete was called once, with the preempted
\* error, unless the dispatching loop has just displaced it and is on its way
\* to that call.
EarlierOnesPreempted(window) ==
    \A i \in 1..(Len(window.entries) - 1) :
        LET e == window.entries[i]
        IN  /\ e \notin Claimed
            /\ \/ done[e] = <<Preempted>>
               \/ done[e] = << >> /\ dPrev = e /\ dpc \in {"unlock", "broadcast", "preempt"}

\* C2 as amended: of the submissions the dispatching loop puts in p.nextEntry
\* while one call of FSM.ProcessEvent runs, only the latest can be processed
\* and every earlier one is completed with the preempted error.
C2_StoredWhileBusy == EarlierOnesPreempted(storeWindow)

\* C2 witness: two entries were put in p.nextEntry while a call ran; that call
\* and the later entry's returned what the FSM returned and the earlier entry
\* was completed with the preempted error.
C2_Witness ==
    /\ Len(storeWindow.entries) = 2
    /\ done[storeWindow.during] = <<EngineResult(storeWindow.during)>>
    /\ done[storeWindow.entries[1]] = <<Preempted>>
    /\ EngineResult(storeWindow.entries[2]) # "none"
    /\ done[storeWindow.entries[2]] = <<EngineResult(storeWindow.entries[2])>>

\* C3: in the preemptive scheduler an entry the process event loop has taken
\* out of p.nextEntry is never completed with the preempted error, whatever is
\* received afterwards: its onComplete is called with what FSM.ProcessEvent
\* returned for it and with nothing else, and what the dispatching loop
\* displaces is never an entry already taken.
C3_ClaimedNeverPreempted ==
    kind = "preemptive" =>
        /\ \A e \in Claimed :
              done[e] = IF e # wEntry THEN <<EngineResult(e)>> ELSE << >>
        /\ \A e \in Claimed : e # wEntry => EngineResult(e) # "none"
        /\ dPrev # NilEntry => dPrev \notin Claimed
        /\ nextEntry # NilEntry => nextEntry \notin Claimed

\* C3 witness: a taken entry's FSM.ProcessEvent call is running after the nil
\* of Close was received and displaced another entry, which got the preempted
\* error.
C3_Witness ==
    /\ kind = "preemptive"
    /\ wpc = "leave"
    /\ exitFlag
    /\ \E e \in Entries : done[e] = <<Preempted>>
    /\ done[wEntry] = << >>

\* The stage of the entry of call c in the life Queued -> Claimed -> Completed
\* or Queued -> Preempted ("new" before the call begins)
Stage(c) ==
    IF cpc[c] = "none" THEN "new"
    ELSE IF done[c] # << >>
    THEN (IF done[c][1] = Preempted THEN "Preempted" ELSE "Completed")
    ELSE IF c \in Claimed THEN "Claimed"
    ELSE "Queued"

StageSteps ==
    {<<"new", "Queued">>, <<"Queued", "Claimed">>, <<"Claimed", "Completed">>,
     <<"Queued", "Preempted">>}

\* C5: every entry goes Queued -> Claimed -> Completed or Queued -> Preempted
\* and its onComplete is called at most once: no entry is both taken by the
\* process event loop and displaced, none gets both a result of the FSM and
\* the preempted error, and Completed and Preempted are final.
C5_EntryLifecycle ==
    /\ [](\A c \in Calls :
             /\ Len(done[c]) <= 1
             /\ Preempted \in {done[c][i] : i \in 1..Len(done[c])} =>
                    c \notin Claimed /\ kind = "preemptive"
             /\ c \in Claimed => c \in Accepted
             /\ Fulfilled(c) => c \in Accepted)
    /\ [][\A c \in Calls :
             /\ Stage(c)' # Stage(c) => <<Stage(c), Stage(c)'>> \in StageSteps
             /\ Fulfilled(c) => done'[c] = done[c]]_vars

\* C5 witness: one entry is Completed, one Preempted and one Claimed.
C5_Witness ==
    /\ \E c \in Calls : Stage(c) = "Completed"
    /\ \E c \in Calls : Stage(c) = "Preempted"
    /\ \E c \in Calls : Stage(c) = "Claimed"

\* The entries received from evChan, in order, without the nil of Close
RECURSIVE WithoutNil(_)
WithoutNil(seq) ==
    IF seq = << >> THEN << >>
    ELSE IF seq[1] = NilEntry THEN WithoutNil(Tail(seq))
    ELSE <<seq[1]>> \o WithoutNil(Tail(seq))

\* C4: QueuedFSM hands the entries to FSM.ProcessEvent in the order it received
\* them from evChan, and one entry's FSM.ProcessEvent call and onComplete are
\* over before the next entry's call begins; so k calls around the switch of
\* the test make k transitions (3 calls from off: counter 3, state on).
C4_QueuedInOrder ==
    kind = "queued" =>
        LET order == WithoutNil(accepted)
            n == Len(processed)
        IN  /\ n <= Len(order)
            /\ \A i \in 1..n : processed[i].entry = order[i]
            /\ Len(order) <= n + 1
            /\ \A i \in 1..Len(order) :
                  Fulfilled(order[i]) <=> (i < Len(order) \/ wEntry = NilEntry)
            /\ Len(order) = n + 1 => wEntry = order[n + 1]
            /\ fsm.transitions = SwitchFSM.transitions =>
                  /\ fsm.payload = n
                  /\ fsm.curState = (IF n % 2 = 1 THEN "on" ELSE "off")
                  /\ \A i \in 1..n : processed[i].err = Nil

\* C4 witness: three calls, each begun after the one before returned, have
\* returned nil; the counter is 3 and the switch is on.
C4_Witness ==
    /\ kind = "queued"
    /\ ~overlap
    /\ \A c \in 1..3 : cpc[c] = "returned" /\ ret[c] = Nil
    /\ Len(processed) = 3
    /\ fsm.payload = 3
    /\ CurrentState(fsm) = "on"

\* Whether the loops of the scheduler have ended
LoopsExited ==
    IF kind = "queued" THEN wpc = "exited" ELSE wpc = "exited" /\ dpc = "exited"

\* C6: Close returns only after the scheduler's loops have ended (the one loop
\* of QueuedFSM, both loops of PreemptiveFSM), so no FSM.ProcessEvent call is
\* running when it returns; and a Close that has been called returns.
C6_CloseWaitsForLoops ==
    /\ [](closePc = "returned" =>
             /\ LoopsExited
             /\ fsm.processEventInvokeCounter = 0
             /\ wEntry = NilEntry)
    /\ (closePc = "send" ~> closePc = "returned")

\* C6 witness: Close has returned from a preemptive scheduler whose FSM
\* processed an event.
C6_Witness ==
    /\ kind = "preemptive"
    /\ closePc = "returned"
    /\ Len(processed) >= 1

\* C7: when Close returns, every entry received before its nil has had its
\* onComplete called: with what the FSM returned if the entry was taken for
\* FSM.ProcessEvent, and otherwise (PreemptiveFSM only: the entry waiting in
\* p.nextEntry when the nil arrived) with the preempted error, unprocessed.
C7_NothingLostAtClose ==
    closePc = "returned" =>
        \A e \in Accepted :
            /\ Fulfilled(e)
            /\ e \in Claimed => done[e] = <<EngineResult(e)>> /\ EngineResult(e) # "none"
            /\ e \notin Claimed =>
                  /\ kind = "preemptive"
                  /\ done[e] = <<Preempted>>
                  /\ EngineResult(e) = "none"

\* C7 witness: Close has returned; the entry received just before its nil was
\* waiting in p.nextEntry and got the preempted error, and an entry taken
\* before got the FSM's result.
C7_Witness ==
    /\ closePc = "returned"
    /\ Len(accepted) >= 3
    /\ accepted[Len(accepted)] = NilEntry
    /\ done[accepted[Len(accepted) - 1]] = <<Preempted>>
    /\ \E e \in Claimed : done[e] = <<EngineResult(e)>>

Errors == {Nil, NoTransition, ActionError}

\* C8: what a scheduler's ProcessEvent returns is what FSM.ProcessEvent returned
\* for the caller's own entry and event, or, from PreemptiveFSM only, the
\* preempted error for an entry the FSM never processed.
C8_OwnResultReturned ==
    \A c \in Calls :
        ret[c] # "none" =>
            \/ /\ \E i \in 1..Len(processed) :
                      /\ processed[i].entry = c
                      /\ processed[i].ev = cev[c]
                      /\ processed[i].err = ret[c]
               /\ ret[c] \in Errors
            \/ /\ ret[c] = Preempted
               /\ kind = "preemptive"
               /\ EngineResult(c) = "none"

\* C8 witness: three calls have returned the three different errors the FSM
\* returned for them.
C8_Witness ==
    /\ ret[1] = Nil /\ EngineResult(1) = Nil
    /\ ret[2] = ActionError /\ EngineResult(2) = ActionError
    /\ ret[3] = NoTransition /\ EngineResult(3) = NoTransition

\* The transitions registered for the state and event of the latest
\* ProcessEvent call, as they were when it began
CallList == TransList(call.before, call.before.curState, call.ev.id)

\* The transitions of CallList whose guard holds of the call's event
CallEnabled ==
    {i \in 1..Len(CallList) : GuardCall(CallList[i].guard, call.before.payload, call.ev)}

\* The first of them
CallFirst == CHOOSE i \in CallEnabled : \A j \in CallEnabled : i <= j

\* What the action of that transition does
CallAction == ActionCall(CallList[CallFirst].action, call.before.payload, call.ev)

UpTo(k) == [i \in 1..k |-> i]

\* C9: AddTransition appends to the list of its state and event, and
\* ProcessEvent calls the guards of the current state's list for the event in
\* that order up to the first that returns true, runs that transition's action
\* and no other, and if the action returns nil moves to the transition's
\* target and returns nil.
C9_FirstEnabledTransition ==
    /\ (call.op = "AddTransition" /\ call.err = Nil) =>
          TransList(fsm, call.arg[1], call.arg[2]) =
              Append(TransList(call.before, call.arg[1], call.arg[2]),
                     [to |-> call.arg[3],
                      guard |-> IF call.arg[5] = "nil" THEN "defaultGuard" ELSE call.arg[5],
                      action |-> IF call.arg[4] = "nil" THEN "defaultAction" ELSE call.arg[4]])
    /\ (call.op = "ProcessEvent" /\ CallEnabled # {}) =>
          /\ call.guards = UpTo(CallFirst)
          /\ call.actions = <<CallFirst>>
          /\ CallAction.err = Nil =>
                /\ call.err = Nil
                /\ CurrentState(fsm) = CallList[CallFirst].to

\* C9 witness: of two transitions for the state and event the first's guard
\* returned false and the second's true; the second's action ran and the
\* state moved to its target, which is not the first's.
C9_Witness ==
    /\ call.op = "ProcessEvent"
    /\ Len(CallList) = 2
    /\ CallEnabled = {2}
    /\ call.guards = <<1, 2>>
    /\ call.actions = <<2>>
    /\ call.err = Nil
    /\ CurrentState(fsm) = CallList[2].to
    /\ CallList[1].to # CallList[2].to
    /\ CurrentState(fsm) # call.before.curState

\* C10: if the action of the transition ProcessEvent selects returns an error,
\* ProcessEvent returns that error, the current state is what it was, and no
\* guard or action of a later transition is called.
C10_ActionErrorKeepsState ==
    (call.op = "ProcessEvent" /\ CallEnabled # {} /\ CallAction.err # Nil) =>
        /\ call.err = CallAction.err
        /\ CurrentState(fsm) = call.before.curState
        /\ call.guards = UpTo(CallFirst)
        /\ call.actions = <<CallFirst>>

\* C10 witness: the first transition's action failed; its target was another
\* state, and a second transition whose guard holds was left alone.
C10_Witness ==
    /\ call.op = "ProcessEvent"
    /\ Len(CallList) = 2
    /\ CallEnabled = {1, 2}
    /\ call.err = ActionError
    /\ CallList[1].to # call.before.curState
    /\ CallList[2].action = "defaultAction"
    /\ CurrentState(fsm) = call.before.curState
    /\ call.guards = <<1>>

\* C11: if the current state has no transition registered for the event, or
\* every guard registered for the pair returns false, ProcessEvent returns
\* NoTransition, runs no action and leaves the current state (and the rest of
\* the FSM) as it was; every guard of the list was asked, in order.
C11_NoTransition ==
    (call.op = "ProcessEvent" /\ CallEnabled = {}) =>
        /\ call.err = NoTransition
        /\ call.actions = << >>
        /\ call.guards = UpTo(Len(CallList))
        /\ CurrentState(fsm) = call.before.curState
        /\ fsm = call.before

\* C11 witness: two transitions are registered for the state and event, to
\* another state, and both guards returned false.
C11_Witness ==
    /\ call.op = "ProcessEvent"
    /\ Len(CallList) = 2
    /\ CallEnabled = {}
    /\ call.guards = <<1, 2>>
    /\ call.err = NoTransition
    /\ CallList[1].to # call.before.curState
    /\ CurrentState(fsm) = call.before.curState

\* The latest ProcessEvent call came to a guard or an action that calls
\* fsm.ProcessEvent: every guard before it returned false
CallReenters ==
    \E i \in 1..Len(CallList) :
        /\ \A j \in 1..(i - 1) :
              /\ CallList[j].guard # "reenter"
              /\ ~GuardCall(CallList[j].guard, call.before.payload, call.ev)
        /\ \/ CallList[i].guard = "reenter"
           \/ /\ GuardCall(CallList[i].guard, call.before.payload, call.ev)
              /\ CallList[i].action = "reenter"

\* C12: a ProcessEvent call made from a guard or an action of a running
\* ProcessEvent call panics, and no guard or action is called for the nested
\* event; a call that comes to no such guard or action does not panic; and
\* whenever no ProcessEvent call is running the counter is 0, whether the
\* last call returned nil, NoTransition or an action's error, or panicked.
C12_ReentryPanics ==
    /\ fsm.processEventInvokeCounter = 0
    /\ call.op = "ProcessEvent" =>
          /\ call.panic <=> CallReenters
          /\ call.panic => (call.inner = 0 /\ panicked)

\* C12 witness: the action of the first transition called ProcessEvent, which
\* panicked, and the counter is back at 0.
C12_Witness ==
    /\ call.op = "ProcessEvent"
    /\ call.panic
    /\ call.guards = <<1>>
    /\ call.actions = <<1>>
    /\ CallList[1].action = "reenter"
    /\ fsm.processEventInvokeCounter = 0

\* The not-found errors for what the latest AddTransition call named that was
\* not registered when it was made
CallMissing ==
    {stateNotFound(x) : x \in {call.arg[1], call.arg[3]} \ call.before.states}
        \cup (IF call.arg[2] \in call.before.events THEN {}
              ELSE {eventNotFound(call.arg[2])})

\* C13: AddTransition called with a from state, an event or a to state that
\* is not registered returns a not-found error naming one that is missing
\* (the first of from, event, to), and the FSM - table, registries, current
\* state - is what it was before the call.
C13_AddTransitionNotFound ==
    (call.op = "AddTransition" /\ CallMissing # {}) =>
        /\ call.err \in CallMissing
        /\ call.err = (IF ~HasState(call.before, call.arg[1])
                       THEN stateNotFound(call.arg[1])
                       ELSE IF ~HasEvent(call.before, call.arg[2])
                       THEN eventNotFound(call.arg[2])
                       ELSE stateNotFound(call.arg[3]))
        /\ fsm = call.before

\* C13 witness: the from state and the event are registered and the to state
\* is not; the error names the to state and nothing was recorded.
C13_Witness ==
    /\ call.op = "AddTransition"
    /\ HasState(call.before, call.arg[1])
    /\ HasEvent(call.before, call.arg[2])
    /\ ~HasState(call.before, call.arg[3])
    /\ call.err = "state on not found"
    /\ TransList(fsm, call.arg[1], call.arg[2]) = << >>
    /\ fsm = call.before

\* C14: AddState of a state already registered, the initial state of NewFSM
\* included, and AddEvent of an event already registered return AlreadyExists
\* and leave the FSM as it was; with a new identifier they add it to their
\* registry, leave the other registry alone, and return nil.
C14_AlreadyExists ==
    /\ call.op = "AddState" =>
          IF HasState(call.before, call.arg[1])
          THEN call.err = AlreadyExists /\ fsm = call.before
          ELSE /\ call.err = Nil
               /\ fsm.states = call.before.states \cup {call.arg[1]}
               /\ fsm.events = call.before.events
    /\ call.op = "AddEvent" =>
          IF HasEvent(call.before, call.arg[1])
          THEN call.err = AlreadyExists /\ fsm = call.before
          ELSE /\ call.err = Nil
               /\ fsm.events = call.before.events \cup {call.arg[1]}
               /\ fsm.states = call.before.states

\* C14 witness: the first call on a new FSM adds its initial state again.
C14_Witness ==
    /\ call.op = "AddState"
    /\ call.before = NewFSM("off", 0)
    /\ call.arg = <<"off">>
    /\ call.err = AlreadyExists
    /\ fsm.states = {"off"}

\* C15: after any calls of AddState, AddEvent, AddTransition and ProcessEvent
\* on a new FSM, failed ones included, the current state is a registered
\* state; so is the state every recorded transition leads to.
C15_CurrentStateRegistered ==
    /\ HasState(fsm, fsm.curState)
    /\ \A from \in StateIDs, e \in EventIDs :
          \A i \in 1..Len(TransList(fsm, from, e)) :
              /\ HasState(fsm, TransList(fsm, from, e)[i].to)
              /\ HasState(fsm, from)

\* C15 witness: ProcessEvent has moved the FSM from its initial state to a
\* state that was added later and has a transition of its own.
C15_Witness ==
    /\ call.op = "ProcessEvent"
    /\ call.err = Nil
    /\ call.before.curState = "off"
    /\ CurrentState(fsm) = "on"
    /\ HasState(fsm, "on")
    /\ \E e \in EventIDs : TransList(fsm, "on", e) # << >>

\* C16: while no Close is called, every call whose entry was received from
\* evChan has its onComplete called and returns. In PreemptiveFSM p.nextEntry
\* and p.exitFlag change, and are looked at, only by the loop that holds the
\* mutex; the loop that set them goes on to Broadcast; and the process event
\* loop does not stay in Wait() while p.nextEntry is set or p.exitFlag is true.
C16_AcceptedIsFulfilled ==
    /\ \A c \in Calls :
          (c \in Accepted /\ closePc = "idle")
              ~> ((Fulfilled(c) /\ cpc[c] = "returned") \/ closePc # "idle")
    /\ [](kind = "preemptive" =>
             /\ wpc \in {"check", "unlock"} => mutex = "worker"
             /\ dpc \in {"swap", "unlock"} => mutex = "dispatcher")
    /\ [][(nextEntry' # nextEntry \/ exitFlag' # exitFlag) =>
             (mutex \in {"worker", "dispatcher"} /\ mutex' = mutex)]_vars
    /\ (dpc = "unlock") ~> (dpc = "preempt")
    /\ (wpc = "waiting" /\ (nextEntry # NilEntry \/ exitFlag)) ~> (wpc # "waiting")

\* C16 witness: no Close was called; the process event loop, woken for an
\* entry, has processed it and waits again; every call has returned, one of
\* them preempted.
C16_Witness ==
    /\ kind = "preemptive"
    /\ closePc = "idle"
    /\ wpc = "waiting"
    /\ Len(processed) >= 1
    /\ \A c \in 1..limit : c \in Accepted /\ cpc[c] = "returned"
    /\ \E c \in 1..limit : ret[c] = Preempted

\* What was received from evChan last (NilEntry if nothing was, or Close's nil)
LastAccepted == IF accepted = << >> THEN NilEntry ELSE accepted[Len(accepted)]

\* The entries FSM.ProcessEvent has returned for
Processed == {processed[i].entry : i \in 1..Len(processed)}

\* The entries received from evChan that were neither taken for
\* FSM.ProcessEvent nor completed
Unstarted == {e \in Accepted : e \notin Claimed /\ ~Fulfilled(e)}

\* C17: in PreemptiveFSM an entry is completed with the preempted error only
\* if something was received from evChan after it, and an entry after which
\* nothing is received is processed by the FSM; p.nextEntry holds nothing or
\* one received entry that is neither taken nor completed, and the only other
\* such entries are the ones the reading loop has in hand (evEntry, and
\* prevEvEntry until its onComplete is called).
C17_LatestWins ==
    /\ [](kind = "preemptive" =>
             /\ \A e \in Entries :
                   done[e] = <<Preempted>> =>
                       \E i \in 1..Len(accepted) : accepted[i] = e /\ i < Len(accepted)
             /\ nextEntry # NilEntry => nextEntry \in Unstarted
             /\ Unstarted \ {nextEntry} \subseteq {dEntry, dPrev}
             /\ Cardinality(Unstarted \cap {nextEntry}) <= 1)
    /\ \A e \in Entries :
          (kind = "preemptive" /\ LastAccepted = e)
              ~> (e \in Processed \/ LastAccepted # e)

\* C17 witness: the entry received last was processed by the FSM and its call
\* returned the FSM's result, after it displaced an earlier entry.
C17_Witness ==
    /\ kind = "preemptive"
    /\ Len(accepted) >= 2
    /\ LastAccepted \in Processed
    /\ ret[LastAccepted] = EngineResult(LastAccepted)
    /\ done[accepted[Len(accepted) - 1]] = <<Preempted>>

\* The entries whose onComplete was called with something other than the
\* preempted error
CompletedByEngine == {e \in Entries : Fulfilled(e) /\ done[e][1] # Preempted}

\* C18: an entry completed with the preempted error was never taken for
\* FSM.ProcessEvent, so no guard or action ran for it; the FSM.ProcessEvent
\* calls that have returned are as many as the entries completed with another
\* result (and the one whose onComplete is about to be called), and around the
\* switch of the tests, whose two actions count, the count is their number.
C18_PreemptedNeverRuns ==
    /\ \A e \in Entries :
          Preempted \in {done[e][i] : i \in 1..Len(done[e])} =>
              /\ kind = "preemptive"
              /\ e \notin Claimed
              /\ EngineResult(e) = "none"
    /\ Len(processed) =
          Cardinality(CompletedByEngine) + (IF wpc = "complete" THEN 1 ELSE 0)
    /\ fsm.transitions = SwitchFSM.transitions => fsm.payload = Len(processed)

\* C18 witness: of three calls of PreemptiveFSM.ProcessEvent one returned the
\* preempted error and two nil, and the count of the switch is 2.
C18_Witness ==
    /\ kind = "preemptive"
    /\ fsm.transitions = SwitchFSM.transitions
    /\ \A c \in 1..3 : cpc[c] = "returned"
    /\ Cardinality({c \in 1..3 : ret[c] = Preempted}) = 1
    /\ Cardinality({c \in 1..3 : ret[c] = Nil}) = 2
    /\ fsm.payload = 2
    /\ CurrentState(fsm) = "off"

\* C19 as claimed: the process event loop ends only after the loop reading
\* evChan has ended, having called the displaced entry's onComplete and left
\* the loop.
C19_WorkerExitsLast ==
    (kind = "preemptive" /\ wpc = "exited") => dpc \in {"wgwait", "exited"}

\* C19 as the code has it: the process event loop ends only once p.exitFlag
\* is set and the reading loop has released the mutex after setting it, with
\* no entry in hand; the reading loop may still be before its Broadcast, the
\* displaced entry's onComplete or its break. mainLoop, which runs the
\* reading loop, returns only after the process event loop has ended.
C19_WorkerExitsAfterFlag ==
    kind = "preemptive" =>
        /\ wpc = "exited" =>
              /\ exitFlag
              /\ wEntry = NilEntry
              /\ dpc \in {"broadcast", "preempt", "wgwait", "exited"}
        /\ dpc = "exited" => wpc = "exited"

\* C19 witness: the process event loop has ended while the reading loop has
\* yet to call the onComplete of the entry Close's nil displaced.
C19_Witness ==
    /\ kind = "preemptive"
    /\ wpc = "exited"
    /\ dpc = "preempt"
    /\ dEntry = NilEntry
    /\ dPrev # NilEntry
    /\ ~Fulfilled(dPrev)

\* C20: in PreemptiveFSM each loop releases the mutex after every Lock, on
\* every path: a loop holds it only between its Lock and its Unlock (or
\* Wait), the process event loop does not hold it once it has ended, and it
\* is free when both loops have ended and Close has returned.
C20_MutexReleased ==
    kind = "preemptive" =>
        /\ mutex = "worker" => wpc \in {"check", "unlock"}
        /\ mutex = "dispatcher" => dpc \in {"swap", "unlock"}
        /\ (wpc = "exited" /\ dpc = "exited" /\ closePc = "returned") => mutex = "free"

====
